---- MODULE Spec2Model ----
(***************************************************************************)
(* Model of src/app.py: the Black-Scholes pricing function black_scholes   *)
(* and the Streamlit script main() that validates the sidebar inputs,      *)
(* prices one call and one put and fills two 10x10 heatmap grids.          *)
(*                                                                         *)
(* Numbers.  The sidebar inputs and the two axes are exact rationals       *)
(* <<n, d>> (d > 0, lowest terms).  Inside black_scholes the transcendental*)
(* functions (np.log, np.sqrt, np.exp, norm.cdf) are evaluated in fixed    *)
(* point with resolution 1/SCALE; TLC's integers are 32 bit, so products   *)
(* are split to stay in range.                                             *)
(*                                                                         *)
(* Specifications.  Spec: runs of main, one after another.  EngineSpec:    *)
(* black_scholes called directly on arbitrary arguments.  ParSpec: one run *)
(* of main whose grid cells are evaluated by interleaved workers.          *)
(***************************************************************************)
EXTENDS Integers, Sequences, FiniteSets, TLC

VARIABLES
    pc,           \* position of the script run
    S, K, T, r, sigma,            \* the five sidebar inputs (rationals)
    call_price, put_price,        \* <<>> until computed, then <<price>>
    S_range, sigma_range,         \* the two axes (sequences of rationals)
    S_grid, sigma_grid,           \* np.meshgrid output, [row][col]
    call_prices, put_prices,      \* the two grids, [row][col]
    i, j,                         \* loop indices of the grid loop
    shown,        \* what the page displays in this run
    invoked,      \* black_scholes invocations of this run (history)
    calls,        \* number of black_scholes invocations of this run (history)
    remembered,   \* inputs and outputs of one earlier finished run (history)
    wpos,         \* parallel evaluation: cells finished by each worker
    eng           \* direct engine call: arguments and result

vars == <<pc, S, K, T, r, sigma, call_price, put_price, S_range, sigma_range,
          S_grid, sigma_grid, call_prices, put_prices, i, j, shown, invoked,
          calls, remembered, wpos, eng>>

------------------------------------------------------------------------------
(* Rational arithmetic: Python float arithmetic on the inputs, taken exact. *)

Abs(x) == IF x < 0 THEN -x ELSE x

Sgn(x) == IF x < 0 THEN -1 ELSE IF x = 0 THEN 0 ELSE 1

RECURSIVE GCD(_, _)
GCD(a, b) == IF b = 0 THEN a ELSE GCD(b, a % b)

Norm(n, d) ==
    LET g == GCD(Abs(n), Abs(d))
        s == IF d < 0 THEN -1 ELSE 1
    IN  <<s * (n \div g), s * (d \div g)>>

Rat(n, d) == Norm(n, d)
RAdd(a, b) == Norm(a[1] * b[2] + b[1] * a[2], a[2] * b[2])
RSub(a, b) == Norm(a[1] * b[2] - b[1] * a[2], a[2] * b[2])
RMul(a, b) == Norm(a[1] * b[1], a[2] * b[2])
RDiv(a, b) == Norm(a[1] * b[2], a[2] * b[1])
RInt(n) == <<n, 1>>
RLe(a, b) == a[1] * b[2] <= b[1] * a[2]
RLt(a, b) == a[1] * b[2] < b[1] * a[2]
Zero == RInt(0)

------------------------------------------------------------------------------
(* Fixed-point kernel for the library functions black_scholes calls.        *)

SCALE == 10 ^ 4      \* resolution of the fixed-point kernel (1e-4)

\* a rational rounded to the nearest multiple of 1/SCALE
ToFix(q) ==
    Sgn(q[1]) * ((2 * Abs(q[1]) * SCALE + q[2]) \div (2 * q[2]))

\* a * b / SCALE, split so that no intermediate product leaves 32 bits
FMul(a, b) ==
    LET x == IF Abs(a) >= Abs(b) THEN Abs(a) ELSE Abs(b)
        y == IF Abs(a) >= Abs(b) THEN Abs(b) ELSE Abs(a)
    IN  Sgn(a) * Sgn(b) * ((x \div SCALE) * y + ((x % SCALE) * y) \div SCALE)

\* a * SCALE / b, split likewise
FDiv(a, b) ==
    LET x == Abs(a)
        y == Abs(b)
    IN  Sgn(a) * Sgn(b) * ((x \div y) * SCALE + ((x % y) * SCALE) \div y)

RECURSIVE Newton(_, _)
Newton(n, g) ==
    LET g2 == (g + n \div g) \div 2
    IN  IF g2 >= g THEN g ELSE Newton(n, g2)

\* np.sqrt on a non-negative fixed-point number
Sqrt(x) == IF x = 0 THEN 0 ELSE Newton(x * SCALE, x * SCALE)

RECURSIVE Atanh2(_, _, _, _)
\* 2 * (z + z^3/3 + z^5/5 + ...): term is the current odd power of z
Atanh2(term, z2, k, acc) ==
    IF term = 0 \/ k > 25 THEN 2 * acc
    ELSE Atanh2(FMul(term, z2), z2, k + 2, acc + term \div k)

RECURSIVE Log(_)
\* np.log on a positive fixed-point number: halve or double into [1/2, 2],
\* then ln x = 2 atanh((x - 1) / (x + 1))
Log(x) ==
    IF x > 2 * SCALE THEN Log(x \div 2) + 6931
    ELSE IF 2 * x < SCALE THEN Log(2 * x) - 6931
    ELSE LET z == FDiv(x - SCALE, x + SCALE)
         IN  Sgn(z) * Atanh2(Abs(z), FMul(z, z), 1, 0)

RECURSIVE Taylor(_, _, _, _)
Taylor(term, x, k, acc) ==
    IF term = 0 \/ k > 12 THEN acc
    ELSE Taylor(FMul(term, x) \div k, x, k + 1, acc + term)

RECURSIVE Exp(_)
\* np.exp: e^x = (e^(x/2))^2 until |x| <= 1/2, then the Taylor series
Exp(x) ==
    IF x < -12 * SCALE THEN 0
    ELSE IF 2 * Abs(x) > SCALE
         THEN LET h == Exp(Sgn(x) * (Abs(x) \div 2)) IN FMul(h, h)
         ELSE LET t == Taylor(Abs(x), Abs(x), 2, SCALE)
              IN  IF x < 0 THEN FDiv(SCALE, t) ELSE t

RECURSIVE Cdf(_)
\* norm.cdf: Abramowitz-Stegun 26.2.17 for x >= 0, the symmetry
\* cdf(-x) = 1 - cdf(x) for x < 0
Cdf(x) ==
    IF x < 0 THEN SCALE - Cdf(-x)
    ELSE IF x > 8 * SCALE THEN SCALE
    ELSE LET t == FDiv(SCALE, SCALE + FMul(2316, x))
             pdf == FMul(3989, Exp(-(FMul(x, x) \div 2)))
             poly == FMul(t, 3194 + FMul(t, -3566 + FMul(t, 17815
                        + FMul(t, -18213 + FMul(t, 13303)))))
         IN  SCALE - FMul(pdf, poly)

------------------------------------------------------------------------------
(* black_scholes, src/app.py lines 7-20.                                    *)

NaN == -(2 ^ 30)     \* stands for the float nan in a price

ValueErrorMessage == <<"option_type must be 'call' or 'put'">>

Returned(price, evaluated) ==
    [exc |-> "", msg |-> <<>>, price |-> price, evaluated |-> evaluated]

Raised(exc, msg) ==
    [exc |-> exc, msg |-> msg, price |-> 0, evaluated |-> TRUE]

\* line 8: T <= 0 or sigma <= 0
Degenerate(pT, psigma) == RLe(pT, Zero) \/ RLe(psigma, Zero)

\* lines 11-12: d1 and d2.  S / K on Python floats raises ZeroDivisionError
\* for K = 0 (main never passes K <= 0); np.log gives nan below zero and
\* -inf at zero.
D1D2(pS, pK, pT, pr, psigma) ==
    IF pK[1] = 0
    THEN [raise |-> TRUE, nan |-> FALSE, neginf |-> FALSE, d1 |-> 0, d2 |-> 0]
    ELSE LET ratio == RDiv(pS, pK)
             x == ToFix(ratio)
             sg == ToFix(psigma)
             den == FMul(sg, Sqrt(ToFix(pT)))
             drift == FMul(ToFix(pr) + FMul(5000, FMul(sg, sg)), ToFix(pT))
         IN  IF ratio[1] < 0
             THEN [raise |-> FALSE, nan |-> TRUE, neginf |-> FALSE,
                   d1 |-> 0, d2 |-> 0]
             ELSE IF x = 0
             THEN [raise |-> FALSE, nan |-> FALSE, neginf |-> TRUE,
                   d1 |-> 0, d2 |-> 0]
             ELSE LET d1 == FDiv(Log(x) + drift, den)
                  IN  [raise |-> FALSE, nan |-> FALSE, neginf |-> FALSE,
                       d1 |-> d1, d2 |-> d1 - den]

\* norm.cdf(sign * d) where d may be -inf
CdfOf(dd, d, sign) ==
    IF dd.neginf THEN (IF sign > 0 THEN 0 ELSE SCALE) ELSE Cdf(sign * d)

\* lines 14-20 with the else branch taking the put formula
PayoffElsePut(option_type, pS, pK, pT, pr, dd) ==
    LET Sf == ToFix(pS)
        Kd == FMul(ToFix(pK), Exp(-FMul(ToFix(pr), ToFix(pT))))
    IN  IF option_type = "call"
        THEN Returned(IF dd.nan THEN NaN
                      ELSE FMul(Sf, CdfOf(dd, dd.d1, 1))
                           - FMul(Kd, CdfOf(dd, dd.d2, 1)), TRUE)
        ELSE Returned(IF dd.nan THEN NaN
                      ELSE FMul(Kd, CdfOf(dd, dd.d2, -1))
                           - FMul(Sf, CdfOf(dd, dd.d1, -1)), TRUE)

\* lines 14-20: the price by option_type, ValueError for any other value
Payoff(option_type, pS, pK, pT, pr, dd) ==
    LET Sf == ToFix(pS)
        Kd == FMul(ToFix(pK), Exp(-FMul(ToFix(pr), ToFix(pT))))
    IN  IF option_type = "call"
        THEN Returned(IF dd.nan THEN NaN
                      ELSE FMul(Sf, CdfOf(dd, dd.d1, 1))
                           - FMul(Kd, CdfOf(dd, dd.d2, 1)), TRUE)
        ELSE IF option_type = "put"
        THEN Returned(IF dd.nan THEN NaN
                      ELSE FMul(Kd, CdfOf(dd, dd.d2, -1))
                           - FMul(Sf, CdfOf(dd, dd.d1, -1)), TRUE)
        ELSE Raised("ValueError", ValueErrorMessage)

\* black_scholes with option_type checked before the degenerate guard
black_scholes_kind_first(pS, pK, pT, pr, psigma, option_type) ==
    IF option_type \notin {"call", "put"}
    THEN Raised("ValueError", ValueErrorMessage)
    ELSE IF Degenerate(pT, psigma) THEN Returned(0, FALSE)
    ELSE LET dd == D1D2(pS, pK, pT, pr, psigma)
         IN  IF dd.raise THEN Raised("ZeroDivisionError", <<>>)
             ELSE Payoff(option_type, pS, pK, pT, pr, dd)

black_scholes(pS, pK, pT, pr, psigma, option_type) ==
    IF Degenerate(pT, psigma) THEN Returned(0, FALSE)
    ELSE LET dd == D1D2(pS, pK, pT, pr, psigma)
         IN  IF dd.raise THEN Raised("ZeroDivisionError", <<>>)
             ELSE Payoff(option_type, pS, pK, pT, pr, dd)

------------------------------------------------------------------------------
(* Direct calls of the engine with arbitrary arguments.                     *)

EngineS == {Rat(-100, 1), Zero, Rat(80, 1), Rat(100, 1)}
EngineK == {Rat(-100, 1), Zero, Rat(100, 1)}
EngineT == {Rat(-1, 1), Zero, Rat(1, 4), Rat(1, 1)}
EngineR == {Zero, Rat(1, 20)}
EngineSigma == {Rat(-1, 5), Zero, Rat(1, 5), Rat(1, 2)}
EngineKinds == {"call", "put", "invalid", "Call"}

EngineArgs ==
    [S : EngineS, K : EngineK, T : EngineT, r : EngineR,
     sigma : EngineSigma, option_type : EngineKinds]

\* the call black_scholes(S, K, T, r, sigma, option_type) on the arguments
\* held in eng
EngineCall ==
    /\ Len(eng) = 1
    /\ eng' = <<eng[1],
                black_scholes(eng[1].S, eng[1].K, eng[1].T, eng[1].r,
                              eng[1].sigma, eng[1].option_type)>>
    /\ UNCHANGED <<pc, S, K, T, r, sigma, call_price, put_price, S_range,
                   sigma_range, S_grid, sigma_grid, call_prices,
                   put_prices, i, j, shown, invoked, calls, remembered,
                   wpos>>

------------------------------------------------------------------------------
(* main, src/app.py lines 22-109, rerun by Streamlit on every interaction.  *)

spot_steps == 10
vol_steps == 10

Unset == <<>>

ErrorMessage ==
    "Please make sure S, K, and sigma are positive values, and T is non-negative."

BlankPage ==
    [error |-> "", call_price |-> <<>>, put_price |-> <<>>,
     call_heatmap |-> <<>>, put_heatmap |-> <<>>, traceback |-> ""]

\* values the five st.sidebar.number_input widgets can deliver (lines 29-33):
\* S, K >= 0.01, T >= 0, r and sigma in [0, 1]
WidgetS == {Rat(50, 1), Rat(100, 1)}
WidgetK == {Rat(100, 1)}
WidgetT == {Zero, Rat(1, 1)}
WidgetR == {Zero, Rat(1, 20)}
WidgetSigma == {Zero, Rat(1, 5), Rat(1, 1)}

Inputs == [S : WidgetS, K : WidgetK, T : WidgetT, r : WidgetR,
           sigma : WidgetSigma]

\* np.linspace(start, stop, num), endpoint excluded
linspace_no_endpoint(start, stop, num) ==
    LET step == RDiv(RSub(stop, start), RInt(num))
    IN  [k \in 0..(num - 1) |-> RAdd(RMul(RInt(k), step), start)]

\* np.linspace(start, stop, num): arange(num) * step + start with
\* step = (stop - start) / (num - 1), the last value set to stop
linspace(start, stop, num) ==
    LET step == RDiv(RSub(stop, start), RInt(num - 1))
    IN  [k \in 0..(num - 1) |->
            IF k = num - 1 THEN stop ELSE RAdd(RMul(RInt(k), step), start)]

\* np.meshgrid with indexing='ij'
meshgrid_ij(x, y) ==
    << [a \in DOMAIN x |-> [b \in DOMAIN y |-> x[a]]],
       [a \in DOMAIN x |-> [b \in DOMAIN y |-> y[b]]] >>

\* np.meshgrid(x, y): shape (len(y), len(x)), X[a][b] = x[b], Y[a][b] = y[a]
meshgrid(x, y) ==
    << [a \in DOMAIN y |-> [b \in DOMAIN x |-> x[b]]],
       [a \in DOMAIN y |-> [b \in DOMAIN x |-> y[a]]] >>

\* np.zeros_like(g)
zeros_like(g) == [a \in DOMAIN g |-> [b \in DOMAIN g[a] |-> 0]]

shape0(g) == Cardinality(DOMAIN g)
shape1(g) == IF DOMAIN g = {} THEN 0 ELSE Cardinality(DOMAIN g[0])

\* the history record of one invocation
Invocation(pT, psigma, ot, res) ==
    [option_type |-> ot, T |-> pT, sigma |-> psigma,
     guard |-> ~res.evaluated, exc |-> res.exc]

\* line 35 without the volatility test
InvalidNoSigma(pS, pK, pT, psigma) ==
    RLe(pS, Zero) \/ RLe(pK, Zero) \/ RLt(pT, Zero)

\* line 35 rejecting T <= 0
InvalidTZero(pS, pK, pT, psigma) ==
    RLe(pS, Zero) \/ RLe(pK, Zero) \/ RLe(pT, Zero) \/ RLe(psigma, Zero)

\* line 35: S <= 0 or K <= 0 or T < 0 or sigma <= 0
Invalid(pS, pK, pT, psigma) ==
    RLe(pS, Zero) \/ RLe(pK, Zero) \/ RLt(pT, Zero) \/ RLe(psigma, Zero)

\* the two grids after a loop body whose calls returned c and q
Stored(cp, pp, a, b, c, q, qkind) ==
    [call_prices |-> [cp EXCEPT ![a][b] = c.price],
     put_prices |-> [pp EXCEPT ![a][b] = q.price],
     c |-> c, q |-> q, qkind |-> qkind]

\* lines 64-69 with the put price stored one column to the right
LoopBodyShiftedPut(cp, pp, a, b) ==
    [call_prices |-> [cp EXCEPT ![a][b] =
        black_scholes(S_grid[a][b], K, T, r, sigma_grid[a][b], "call").price],
     put_prices |-> [pp EXCEPT ![a][(b + 1) % shape1(pp)] =
        black_scholes(S_grid[a][b], K, T, r, sigma_grid[a][b], "put").price],
     c |-> black_scholes(S_grid[a][b], K, T, r, sigma_grid[a][b], "call"),
     q |-> black_scholes(S_grid[a][b], K, T, r, sigma_grid[a][b], "put"),
     qkind |-> "put"]

\* lines 64-69 with option_type='Put'
LoopBodyPutCapital(cp, pp, a, b) ==
    Stored(cp, pp, a, b,
           black_scholes(S_grid[a][b], K, T, r, sigma_grid[a][b], "call"),
           black_scholes(S_grid[a][b], K, T, r, sigma_grid[a][b], "Put"),
           "Put")

\* lines 64-69: the body of the grid loop at row a, column b
LoopBody(cp, pp, a, b) ==
    Stored(cp, pp, a, b,
           black_scholes(S_grid[a][b], K, T, r, sigma_grid[a][b], "call"),
           black_scholes(S_grid[a][b], K, T, r, sigma_grid[a][b], "put"),
           "put")

InitRun ==
    /\ pc = "start"
    /\ S = Unset /\ K = Unset /\ T = Unset /\ r = Unset /\ sigma = Unset
    /\ call_price = <<>> /\ put_price = <<>>
    /\ S_range = <<>> /\ sigma_range = <<>>
    /\ S_grid = <<>> /\ sigma_grid = <<>>
    /\ call_prices = <<>> /\ put_prices = <<>>
    /\ i = 0 /\ j = 0
    /\ shown = BlankPage
    /\ invoked = {}
    /\ calls = 0
    /\ remembered = <<>>

Init == InitRun /\ wpos = <<>> /\ eng = <<>>

\* lines 29-33: the widgets deliver the five inputs
ReadInputs(from) ==
    /\ pc = "start"
    /\ \E in \in from :
        /\ S' = in.S /\ K' = in.K /\ T' = in.T /\ r' = in.r
        /\ sigma' = in.sigma
    /\ pc' = "validate"
    /\ UNCHANGED <<call_price, put_price, S_range, sigma_range, S_grid,
                   sigma_grid, call_prices, put_prices, i, j, shown, invoked,
                   calls, remembered, wpos, eng>>

\* lines 35-37: reject with st.error and return, or go on
Validate ==
    /\ pc = "validate"
    /\ IF Invalid(S, K, T, sigma)
       THEN /\ shown' = [shown EXCEPT !.error = ErrorMessage]
            /\ pc' = "returned"
       ELSE /\ pc' = "scalar"
            /\ UNCHANGED shown
    /\ UNCHANGED <<S, K, T, r, sigma, call_price, put_price, S_range,
                   sigma_range, S_grid, sigma_grid, call_prices, put_prices,
                   i, j, invoked, calls, remembered, wpos, eng>>

\* lines 39-44 given the two results c and q of black_scholes
ScalarResults(c, q) ==
    IF c.exc # ""
    THEN /\ pc' = "exception"
         /\ shown' = [shown EXCEPT !.traceback = c.exc]
         /\ invoked' = invoked \cup {Invocation(T, sigma, "call", c)}
         /\ calls' = calls + 1
         /\ UNCHANGED <<call_price, put_price>>
    ELSE IF q.exc # ""
    THEN /\ pc' = "exception"
         /\ shown' = [shown EXCEPT !.traceback = q.exc]
         /\ call_price' = <<c.price>>
         /\ invoked' = invoked \cup {Invocation(T, sigma, "call", c),
                                     Invocation(T, sigma, "put", q)}
         /\ calls' = calls + 2
         /\ UNCHANGED put_price
    ELSE /\ pc' = "axes"
         /\ call_price' = <<c.price>>
         /\ put_price' = <<q.price>>
         /\ shown' = [shown EXCEPT !.call_price = <<c.price>>,
                                   !.put_price = <<q.price>>]
         /\ invoked' = invoked \cup {Invocation(T, sigma, "call", c),
                                     Invocation(T, sigma, "put", q)}
         /\ calls' = calls + 2

\* lines 39-44: the two scalar prices, written to the page
ScalarPrices ==
    /\ pc = "scalar"
    /\ ScalarResults(black_scholes(S, K, T, r, sigma, "call"),
                     black_scholes(S, K, T, r, sigma, "put"))
    /\ UNCHANGED <<S, K, T, r, sigma, S_range, sigma_range, S_grid,
                   sigma_grid, call_prices, put_prices, i, j, remembered,
                   wpos, eng>>

\* lines 46-60: the axes, the mesh and the two zero grids
BuildAxes ==
    /\ pc = "axes"
    /\ LET S_min == RMul(S, Rat(8, 10))
           S_max == RMul(S, Rat(12, 10))
           sigma_min == RMul(sigma, Rat(5, 10))
           sigma_max == RMul(sigma, Rat(15, 10))
           xs == linspace(S_min, S_max, spot_steps)
           ys == linspace(sigma_min, sigma_max, vol_steps)
           mesh == meshgrid(xs, ys)
       IN  /\ S_range' = xs
           /\ sigma_range' = ys
           /\ S_grid' = mesh[1]
           /\ sigma_grid' = mesh[2]
           /\ call_prices' = zeros_like(mesh[1])
           /\ put_prices' = zeros_like(mesh[1])
    /\ i' = 0 /\ j' = 0
    /\ wpos' = [w \in DOMAIN wpos |-> 0]
    /\ pc' = "loop"
    /\ UNCHANGED <<S, K, T, r, sigma, call_price, put_price, shown, invoked,
                   calls, remembered, eng>>

\* the effect of one loop body, res, on the run's variables other than the
\* loop indices
RunResult(res, a, b) ==
    IF res.c.exc # ""
    THEN /\ pc' = "exception"
         /\ shown' = [shown EXCEPT !.traceback = res.c.exc]
         /\ invoked' = invoked \cup
                {Invocation(T, sigma_grid[a][b], "call", res.c)}
         /\ calls' = calls + 1
         /\ UNCHANGED <<call_prices, put_prices>>
    ELSE IF res.q.exc # ""
    THEN /\ pc' = "exception"
         /\ shown' = [shown EXCEPT !.traceback = res.q.exc]
         /\ call_prices' = res.call_prices
         /\ invoked' = invoked \cup
                {Invocation(T, sigma_grid[a][b], "call", res.c),
                 Invocation(T, sigma_grid[a][b], res.qkind, res.q)}
         /\ calls' = calls + 2
         /\ UNCHANGED put_prices
    ELSE /\ call_prices' = res.call_prices
         /\ put_prices' = res.put_prices
         /\ invoked' = invoked \cup
                {Invocation(T, sigma_grid[a][b], "call", res.c),
                 Invocation(T, sigma_grid[a][b], res.qkind, res.q)}
         /\ calls' = calls + 2
         /\ UNCHANGED <<pc, shown>>

RunBody(a, b) == RunResult(LoopBody(call_prices, put_prices, a, b), a, b)

\* lines 62-69: one iteration of the nested loop, rows outside, columns inside
LoopStep ==
    /\ pc = "loop"
    /\ i < shape0(S_grid)
    /\ RunBody(i, j)
    /\ IF j + 1 < shape1(S_grid)
       THEN j' = j + 1 /\ i' = i
       ELSE j' = 0 /\ i' = i + 1
    /\ UNCHANGED <<S, K, T, r, sigma, call_price, put_price, S_range,
                   sigma_range, S_grid, sigma_grid, remembered, wpos, eng>>

\* line 62: range exhausted
LoopExit ==
    /\ pc = "loop"
    /\ i = shape0(S_grid)
    /\ pc' = "render"
    /\ UNCHANGED <<S, K, T, r, sigma, call_price, put_price, S_range,
                   sigma_range, S_grid, sigma_grid, call_prices, put_prices,
                   i, j, shown, invoked, calls, remembered, wpos, eng>>

\* lines 71-109: the two heatmaps are drawn from the grids
Render ==
    /\ pc = "render"
    /\ shown' = [shown EXCEPT !.call_heatmap = call_prices,
                              !.put_heatmap = put_prices]
    /\ pc' = "done"
    /\ UNCHANGED <<S, K, T, r, sigma, call_price, put_price, S_range,
                   sigma_range, S_grid, sigma_grid, call_prices, put_prices,
                   i, j, invoked, calls, remembered, wpos, eng>>

Finished == pc \in {"done", "returned", "exception"}

\* a rerun that leaves the previous run's page elements in place
RerunKeepsPage ==
    /\ Finished
    /\ \E keep \in BOOLEAN :
        remembered' = IF keep THEN remembered
                      ELSE <<[S |-> S, K |-> K, T |-> T, r |-> r,
                              sigma |-> sigma], shown>>
    /\ pc' = "start"
    /\ S' = Unset /\ K' = Unset /\ T' = Unset /\ r' = Unset
    /\ sigma' = Unset
    /\ call_price' = <<>> /\ put_price' = <<>>
    /\ S_range' = <<>> /\ sigma_range' = <<>>
    /\ S_grid' = <<>> /\ sigma_grid' = <<>>
    /\ call_prices' = <<>> /\ put_prices' = <<>>
    /\ i' = 0 /\ j' = 0
    /\ shown' = [shown EXCEPT !.error = ""]
    /\ invoked' = {}
    /\ calls' = 0
    /\ UNCHANGED <<wpos, eng>>

\* line 111, run again by Streamlit on the next interaction: the script
\* starts from the top with fresh locals and a fresh page
Rerun ==
    /\ Finished
    /\ \E keep \in BOOLEAN :
        remembered' = IF keep THEN remembered
                      ELSE <<[S |-> S, K |-> K, T |-> T, r |-> r,
                              sigma |-> sigma], shown>>
    /\ pc' = "start"
    /\ S' = Unset /\ K' = Unset /\ T' = Unset /\ r' = Unset
    /\ sigma' = Unset
    /\ call_price' = <<>> /\ put_price' = <<>>
    /\ S_range' = <<>> /\ sigma_range' = <<>>
    /\ S_grid' = <<>> /\ sigma_grid' = <<>>
    /\ call_prices' = <<>> /\ put_prices' = <<>>
    /\ i' = 0 /\ j' = 0
    /\ shown' = BlankPage
    /\ invoked' = {}
    /\ calls' = 0
    /\ UNCHANGED <<wpos, eng>>

Next ==
    \/ ReadInputs(Inputs)
    \/ Validate
    \/ ScalarPrices
    \/ BuildAxes
    \/ LoopStep
    \/ LoopExit
    \/ Render
    \/ Rerun

Spec == Init /\ [][Next]_vars

EngineNext == EngineCall

\* the engine about to be called on any of the arguments
EngineInit == InitRun /\ wpos = <<>> /\ eng \in {<<x>> : x \in EngineArgs}

EngineSpec == EngineInit /\ [][EngineNext]_vars

------------------------------------------------------------------------------
(* The grid loop of lines 62-69 with its iterations shared out to workers:  *)
(* worker w takes the cells whose row-major index is w modulo NWorkers, in  *)
(* ascending order, and the workers interleave freely.                      *)

NWorkers == 2

Workers == 0..(NWorkers - 1)

ParInputs ==
    {[S |-> Rat(100, 1), K |-> Rat(100, 1), T |-> Rat(1, 1),
      r |-> Rat(1, 20), sigma |-> Rat(1, 5)],
     [S |-> Rat(50, 1), K |-> Rat(100, 1), T |-> Rat(1, 1),
      r |-> Rat(1, 20), sigma |-> Zero]}

ParInit == InitRun /\ wpos = [w \in Workers |-> 0] /\ eng = <<>>

NCells == shape0(S_grid) * shape1(S_grid)

\* the row-major index of worker w's next cell
NextCell(w) == w + NWorkers * wpos[w]

\* worker w runs the loop body on its next cell
ParCell(w) ==
    /\ pc = "loop"
    /\ NextCell(w) < NCells
    /\ RunBody(NextCell(w) \div shape1(S_grid), NextCell(w) % shape1(S_grid))
    /\ wpos' = [wpos EXCEPT ![w] = @ + 1]
    /\ UNCHANGED <<S, K, T, r, sigma, call_price, put_price, S_range,
                   sigma_range, S_grid, sigma_grid, i, j, remembered, eng>>

\* every worker has finished its cells
ParJoin ==
    /\ pc = "loop"
    /\ \A w \in Workers : NextCell(w) >= NCells
    /\ pc' = "render"
    /\ UNCHANGED <<S, K, T, r, sigma, call_price, put_price, S_range,
                   sigma_range, S_grid, sigma_grid, call_prices, put_prices,
                   i, j, shown, invoked, calls, remembered, wpos, eng>>

ParNext ==
    \/ ReadInputs(ParInputs)
    \/ Validate
    \/ ScalarPrices
    \/ BuildAxes
    \/ \E w \in Workers : ParCell(w)
    \/ ParJoin
    \/ Render

ParSpec == ParInit /\ [][ParNext]_vars

------------------------------------------------------------------------------
(* Properties of black_scholes called directly (EngineSpec).                *)

EngineCalled == Len(eng) = 2

\* C1: black_scholes returns exactly 0.0 whenever T <= 0 or sigma <= 0, for
\* every S, K, r and any option_type, and d1/d2 are not evaluated.
C1_DegenerateReturnsZero ==
    (EngineCalled /\ (RLe(eng[1].T, Zero) \/ RLe(eng[1].sigma, Zero)))
        => /\ eng[2].exc = ""
           /\ eng[2].price = 0
           /\ ~eng[2].evaluated

\* a degenerate call with an unknown option_type and K = 0 returned 0.0
C1_Witness ==
    /\ EngineCalled
    /\ eng[1].sigma = Zero /\ RLt(Zero, eng[1].T)
    /\ eng[1].K = Zero
    /\ eng[1].option_type = "invalid"
    /\ eng[2] = Returned(0, FALSE)

\* C2 as stated: every call with an option_type outside {'call', 'put'}
\* fails with a ValueError whose message names the offending value, whatever
\* the numeric arguments.
C2_InvalidKindAlwaysRaisesNamingValue ==
    (EngineCalled /\ eng[1].option_type \notin {"call", "put"})
        => /\ eng[2].exc = "ValueError"
           /\ \E k \in DOMAIN eng[2].msg : eng[2].msg[k] = eng[1].option_type

\* C2 amended: with T > 0, sigma > 0 and K # 0 a call with an option_type
\* outside {'call', 'put'} fails with a ValueError and returns no price; the
\* message is the fixed text and does not name the offending value.
C2_InvalidKindRaisesPastGuard ==
    (/\ EngineCalled
     /\ eng[1].option_type \notin {"call", "put"}
     /\ RLt(Zero, eng[1].T) /\ RLt(Zero, eng[1].sigma)
     /\ eng[1].K # Zero)
        => /\ eng[2].exc = "ValueError"
           /\ eng[2].msg = <<"option_type must be 'call' or 'put'">>
           /\ \A k \in DOMAIN eng[2].msg : eng[2].msg[k] # eng[1].option_type

\* the spec's example: S=100, K=100, T=1, r=0.05, sigma=0.2, kind "invalid"
C2_Witness ==
    /\ EngineCalled
    /\ eng[1] = [S |-> Rat(100, 1), K |-> Rat(100, 1), T |-> Rat(1, 1),
                 r |-> Rat(1, 20), sigma |-> Rat(1, 5),
                 option_type |-> "invalid"]
    /\ eng[2].exc = "ValueError"

------------------------------------------------------------------------------
(* Properties of a run of main (Spec).                                      *)

InputsRead == pc \notin {"start", "validate"}

CurrentInputs == [S |-> S, K |-> K, T |-> T, r |-> r, sigma |-> sigma]

\* C3: a run whose inputs satisfy S <= 0 or K <= 0 or T < 0 or sigma <= 0
\* shows the error message and ends without invoking black_scholes and
\* without any scalar price or grid; black_scholes is invoked only after the
\* validation has passed.
C3_RejectedBeforeEngine ==
    /\ (InputsRead /\ (RLe(S, Zero) \/ RLe(K, Zero) \/ RLt(T, Zero)
                       \/ RLe(sigma, Zero)))
          => /\ pc = "returned"
             /\ shown.error = ErrorMessage
             /\ calls = 0 /\ invoked = {}
             /\ call_price = <<>> /\ put_price = <<>>
             /\ call_prices = <<>> /\ put_prices = <<>>
             /\ shown.call_price = <<>> /\ shown.put_price = <<>>
             /\ shown.call_heatmap = <<>> /\ shown.put_heatmap = <<>>
    /\ (calls > 0 \/ invoked # {})
          => /\ pc \notin {"start", "validate", "returned"}
             /\ RLt(Zero, S) /\ RLt(Zero, K) /\ RLe(Zero, T)
             /\ RLt(Zero, sigma)

\* a run with sigma = 0 was rejected
C3_Witness ==
    /\ pc = "returned"
    /\ sigma = Zero
    /\ shown.error = ErrorMessage
    /\ calls = 0

\* C4: after the grid loop both grids are 10x10 and cell [i][j] holds
\* black_scholes(S_range[j], K, T, r, sigma_range[i], kind): rows are indexed
\* by volatility, columns by spot, K, T, r are the base input's.
C4_GridCells ==
    pc \in {"render", "done"}
        => /\ DOMAIN call_prices = 0..9 /\ DOMAIN put_prices = 0..9
           /\ \A a \in 0..9 :
                /\ DOMAIN call_prices[a] = 0..9
                /\ DOMAIN put_prices[a] = 0..9
                /\ \A b \in 0..9 :
                    /\ call_prices[a][b] =
                         black_scholes(S_range[b], K, T, r, sigma_range[a],
                                       "call").price
                    /\ put_prices[a][b] =
                         black_scholes(S_range[b], K, T, r, sigma_range[a],
                                       "put").price

\* a finished grid whose corners tell rows from columns
C4_Witness ==
    /\ pc = "done"
    /\ T = Rat(1, 1)
    /\ call_prices[0][9] # call_prices[9][0]
    /\ put_prices[0][9] # put_prices[9][0]
    /\ call_prices[0][9] # call_prices[0][0]

\* C5: the spot axis is 10 values from 0.8*S to 1.2*S with constant step
\* 0.4*S/9, the volatility axis 10 values from 0.5*sigma to 1.5*sigma with
\* constant step sigma/9, endpoints included.
C5_Axes ==
    pc \in {"loop", "render", "done"}
        => /\ DOMAIN S_range = 0..9
           /\ DOMAIN sigma_range = 0..9
           /\ S_range[0] = RMul(Rat(4, 5), S)
           /\ S_range[9] = RMul(Rat(6, 5), S)
           /\ sigma_range[0] = RMul(Rat(1, 2), sigma)
           /\ sigma_range[9] = RMul(Rat(3, 2), sigma)
           /\ \A k \in 0..8 :
                /\ RSub(S_range[k + 1], S_range[k])
                     = RDiv(RMul(Rat(2, 5), S), RInt(9))
                /\ RSub(sigma_range[k + 1], sigma_range[k])
                     = RDiv(sigma, RInt(9))

\* the axes of the default inputs S = 100, sigma = 0.2
C5_Witness ==
    /\ pc = "loop"
    /\ S = Rat(100, 1) /\ sigma = Rat(1, 5)
    /\ S_range[1] = Rat(760, 9)
    /\ sigma_range[8] = Rat(25, 90)

\* C7: the outputs of a finished run are a function of its five inputs only:
\* a finished run shows exactly what any earlier finished run with the same
\* inputs showed, whatever ran in between.
C7_OutputsDependOnInputsOnly ==
    (Finished /\ remembered # <<>> /\ remembered[1] = CurrentInputs)
        => remembered[2] = shown

\* a finished valid run repeating the inputs of a remembered earlier run
C7_Witness ==
    /\ pc = "done"
    /\ remembered # <<>>
    /\ remembered[1] = CurrentInputs
    /\ T = Rat(1, 1)
    /\ shown.call_heatmap = call_prices

\* C9 as stated: inputs with T = 0 exactly and inputs with sigma = 0 exactly
\* (otherwise valid) pass the boundary validation and reach the engine.
C9_ZeroMaturityOrVolatilityPasses ==
    (/\ InputsRead
     /\ RLt(Zero, S) /\ RLt(Zero, K)
     /\ RLe(Zero, T) /\ RLe(Zero, sigma)
     /\ (T = Zero \/ sigma = Zero))
        => pc # "returned"

\* C9 amended: inputs with T = 0 exactly (and sigma > 0) pass the validation
\* and black_scholes is invoked with T = 0, where its guard returns 0.0; no
\* input with sigma = 0 passes, black_scholes is never invoked from main with
\* sigma <= 0, and the guard is reached in main through T = 0 only.
C9_OnlyZeroMaturityReachesGuard ==
    /\ \A v \in invoked :
          /\ RLt(Zero, v.sigma)
          /\ v.guard <=> (v.T = Zero)
    /\ (InputsRead /\ T = Zero /\ RLt(Zero, sigma))
          => /\ pc # "returned"
             /\ pc # "scalar" => \E v \in invoked : v.guard /\ v.T = Zero
    /\ (InputsRead /\ sigma = Zero)
          => pc = "returned" /\ invoked = {}

\* a finished run with T = 0 whose engine calls all took the guard
C9_Witness ==
    /\ pc = "done"
    /\ T = Zero
    /\ calls = 202
    /\ \A v \in invoked : v.guard
    /\ call_price = <<0>>

\* C10: every invocation of black_scholes made by main passes 'call' or
\* 'put', none raises, no run ends with an exception, and a run that reaches
\* the heatmaps has made 202 invocations.
C10_MainNeverRaisesValueError ==
    /\ \A v \in invoked : v.option_type \in {"call", "put"} /\ v.exc = ""
    /\ pc # "exception"
    /\ shown.traceback = ""
    /\ pc = "loop" => calls = 2 + 2 * (i * 10 + j)
    /\ pc \in {"render", "done"} => calls = 202

\* a complete run past the guard: 202 invocations, both kinds
C10_Witness ==
    /\ pc = "done"
    /\ calls = 202
    /\ RLt(Zero, T)
    /\ {v.option_type : v \in invoked} = {"call", "put"}
    /\ \A v \in invoked : ~v.guard

------------------------------------------------------------------------------
(* Evaluation order of the grid cells (ParSpec).                            *)

RECURSIVE SeqFrom(_, _, _)
\* the grids the row-by-row loop of lines 62-69 leaves, from cell k on
SeqFrom(cp, pp, k) ==
    IF k = NCells THEN <<cp, pp>>
    ELSE SeqFrom(LoopBody(cp, pp, k \div shape1(S_grid),
                          k % shape1(S_grid)).call_prices,
                 LoopBody(cp, pp, k \div shape1(S_grid),
                          k % shape1(S_grid)).put_prices,
                 k + 1)

\* grid g with the cell of row-major index k set to v, all others as in g
WithCell(g, k, v) ==
    [g EXCEPT ![k \div shape1(S_grid)][k % shape1(S_grid)] = v]

CellAt(g, k) == g[k \div shape1(S_grid)][k % shape1(S_grid)]

\* C6: whatever the interleaving of the per-cell computations, the final
\* grids equal those of the sequential row-by-row loop; a step writes only
\* the cell it computes, so no finished cell is overwritten, and what it
\* writes is determined by the inputs alone, not by any other cell.
C6_OrderIndependent ==
    /\ [](pc \in {"render", "done"}
            => <<call_prices, put_prices>>
                 = SeqFrom(zeros_like(S_grid), zeros_like(S_grid), 0))
    /\ [][(pc = "loop" /\ pc' = "loop")
            => \E w \in Workers :
                 /\ wpos' = [wpos EXCEPT ![w] = @ + 1]
                 /\ call_prices' = WithCell(call_prices, NextCell(w),
                      black_scholes(CellAt(S_grid, NextCell(w)), K, T, r,
                                    CellAt(sigma_grid, NextCell(w)),
                                    "call").price)
                 /\ put_prices' = WithCell(put_prices, NextCell(w),
                      black_scholes(CellAt(S_grid, NextCell(w)), K, T, r,
                                    CellAt(sigma_grid, NextCell(w)),
                                    "put").price)
          ]_vars

\* worker 1 has run well ahead of worker 0: cells written out of row order
C6_Witness ==
    /\ pc = "loop"
    /\ wpos # <<>>
    /\ wpos[0] = 0
    /\ wpos[1] > 10
    /\ call_prices[0][1] # 0
    /\ call_prices[0][0] = 0

====
